---------------------------- MODULE Spec2Model ----------------------------
(***************************************************************************)
(* Model of the Poseidon2 Pow5 chip (poseidon2/src/circuit/pow5.rs):       *)
(* Pow5Chip::configure, the permutation region built by permute (load,     *)
(* first_layer, full_round, partial_round, round) and the sponge regions   *)
(* built by initial_state and add_input.  A region is modelled by the      *)
(* ordered log of the engine operations the chip issues against it.        *)
(***************************************************************************)
EXTENDS Integers, Sequences, FiniteSets, TLC

\* ------------------------------------------------------------------ bounds
\* Modulus of the field the model computes in (the code is generic in F).
P == 7
\* Spec::full_rounds() ranges over 0..MaxFullRounds.
MaxFullRounds == 4
\* Spec::partial_rounds() ranges over 0..MaxPartialRounds.
MaxPartialRounds == 2
\* Known input values (state words, message words) range over 0..MaxInput.
MaxInput == 1
\* Padding constants and initial capacity elements range over 0..MaxPad.
MaxPad == 1

\* The instantiations of the const generics WIDTH and RATE.
Widths == {2, 3}
Rates == {1, 2, 3}

\* ------------------------------------------------------- field and Value<F>
F == 0 .. (P - 1)

FAdd(a, b) == (a + b) % P

FMul(a, b) == (a * b) % P

FSub(a, b) == (a + P - b) % P

\* Field::pow with the exponent held in config.alpha.
RECURSIVE FPow(_, _)
FPow(x, e) == IF e = 0 THEN 1 % P ELSE FMul(x, FPow(x, e - 1))

\* halo2 Value<T>: a known value or an unknown one.
Known(x) == [known |-> TRUE, v |-> x]

UnknownV == [known |-> FALSE, v |-> 0]

\* Value + Value
VAdd(a, b) == IF a.known /\ b.known THEN Known(FAdd(a.v, b.v)) ELSE UnknownV

\* Iterator<Value<F>>::collect::<Value<Vec<F>>>() over the indices 0..w-1:
\* known only when every element is known.
VCollect(vals, w) ==
    IF \A i \in 0 .. (w - 1) : vals[i].known
    THEN Known([i \in 0 .. (w - 1) |-> vals[i].v])
    ELSE UnknownV

\* Sum of terms[0] .. terms[n-1], folded from F::ZERO as the code's fold does.
RECURSIVE FoldSum(_, _)
FoldSum(terms, n) ==
    IF n = 0 THEN 0 ELSE FAdd(FoldSum(terms, n - 1), terms[n - 1])

\* --------------------------------------------------- Spec::constants() data
\* The constants a Spec hands to configure: round constants and the two
\* mixing matrices (asymmetric, so that a transposed index is a different
\* matrix).
round_constants(r, i) == (3 * r + 2 * i + 1) % P

mat_external(i, j) == (i + 2 * j + 1) % P

mat_internal(i, j) == (2 * i + j + (IF i = j THEN 3 ELSE 2)) % P

\* ------------------------------------------------------ columns, cells, ops
StateCol(i) == <<"state", i>>

PartialSboxCol == <<"partial_sbox", 0>>

RcCol(i) == <<"rc_a", i>>

PadCol(i) == <<"pad_fixed", i>>

NoCol == <<"none", 0>>

\* halo2 Cell: a column and a row of a region.
CellOf(regionName, col, row) == [region |-> regionName, col |-> col, row |-> row]

NoCell == CellOf("none", NoCol, 0)

\* One engine operation issued against the open region.  peer is the other
\* cell of the equality constraint the operation records, if it records one.
EnableOp(sel, row) ==
    [op |-> "enable", col |-> <<sel, 0>>, row |-> row, val |-> UnknownV, peer |-> NoCell]

AssignAdviceOp(col, row, val) ==
    [op |-> "assign_advice", col |-> col, row |-> row, val |-> val, peer |-> NoCell]

AssignFixedOp(col, row, val) ==
    [op |-> "assign_fixed", col |-> col, row |-> row, val |-> val, peer |-> NoCell]

AssignConstantOp(col, row, x) ==
    [op |-> "assign_advice_from_constant", col |-> col, row |-> row,
     val |-> Known(x), peer |-> NoCell]

CopyAdviceOp(word, col, row) ==
    [op |-> "copy_advice", col |-> col, row |-> row, val |-> word.value,
     peer |-> word.cell]

ConstrainEqualOp(a, b) ==
    [op |-> "constrain_equal", col |-> b.col, row |-> b.row, val |-> UnknownV,
     peer |-> a]

AssignOps == {"assign_advice", "assign_fixed", "assign_advice_from_constant", "copy_advice"}

\* StateWord: an assigned cell and the value it carries.
Word(cell, value) == [cell |-> cell, value |-> value]

\* PaddedWord / Option<PaddedWord>: one slot of an Absorbing block.
Message(word) == [tag |-> "Message", cell |-> word.cell, value |-> word.value]

Padding(x) == [tag |-> "Padding", cell |-> NoCell, value |-> Known(x)]

NoneSlot == [tag |-> "None", cell |-> NoCell, value |-> UnknownV]

\* ------------------------------------------------------------------- state
VARIABLES
    params,     \* WIDTH, RATE and the Spec's full_rounds / partial_rounds
    meta,       \* the ConstraintSystem configure registers into
    config,     \* the Pow5Config configure returns
    pc,         \* position of the caller / of permute's closure
    regionName, \* name of the region opened by the current call
    log,        \* engine operations issued against that region, in order
    args,       \* arguments of the current call
    state,      \* the Pow5State threaded through permute
    r,          \* loop index of the fold permute is in
    trace,      \* the steps permute has run: step, round index, row offset
    result,     \* what the current call returned
    fault       \* the operation the engine failed, if any, and its error

vars == <<params, meta, config, pc, regionName, log, args, state, r, trace, result, fault>>

NoState == <<>>

NoConfig == [configured |-> FALSE, half_full_rounds |-> 0, full_partial_rounds |-> 0]

NoResult == [kind |-> "none", state |-> NoState, error |-> "none"]

Ok(st) == [kind |-> "Ok", state |-> st, error |-> "none"]

Err(e) == [kind |-> "Err", state |-> NoState, error |-> e]

Panic(msg) == [kind |-> "Panic", state |-> NoState, error |-> msg]

\* No engine operation has failed; otherwise at is the position the failed
\* operation would have had in the region's log.
NoFault == [at |-> 0, error |-> "none"]

NoArgs == [initial_state |-> NoState, input |-> NoState, domain |-> 0]

WIDTH == params.WIDTH

RATE == params.RATE

Idx == 0 .. (WIDTH - 1)

\* The values a caller's cells may carry.
InputValues == {Known(x) : x \in 0 .. MaxInput} \cup {UnknownV}

\* The States a caller may hand to permute or add_input: WIDTH words assigned
\* in a region of the caller's own.
CallerStates ==
    {[i \in Idx |-> Word(CellOf("prepare initial state", StateCol(i), 0), vals[i])] :
        vals \in [Idx -> InputValues]}

\* The Absorbing blocks a caller may hand to add_input: RATE optional words.
MessageWords(i) ==
    {Message(Word(CellOf("load message", StateCol(i), 0), v)) : v \in InputValues}

PaddingWords == {Padding(x) : x \in 0 .. MaxPad}

AbsorbingBlocks ==
    {b \in [0 .. (RATE - 1) -> UNION {MessageWords(i) : i \in 0 .. (RATE - 1)}
                                \cup PaddingWords \cup {NoneSlot}] :
        \A i \in 0 .. (RATE - 1) : b[i].tag = "Message" => b[i] \in MessageWords(i)}

\* Domain::initial_capacity_element() of the domains a caller may choose.
Domains == 0 .. MaxPad

Init ==
    /\ params \in [WIDTH : Widths, RATE : Rates,
                   full_rounds : 0 .. MaxFullRounds,
                   partial_rounds : 0 .. MaxPartialRounds]
    /\ meta = [equality |-> {}, selectors |-> <<>>, gates |-> <<>>]
    /\ config = NoConfig
    /\ pc = "unconfigured"
    /\ regionName = "none"
    /\ log = <<>>
    /\ args = NoArgs
    /\ state = NoState
    /\ r = 0
    /\ trace = <<>>
    /\ result = NoResult
    /\ fault = NoFault

\* --------------------------------------------------------------- configure
\* configure checking the full rounds only.
ConfigureAssertsFullOnly(prm) ==
    IF prm.RATE # prm.WIDTH - 1 THEN "assert_eq!(RATE, WIDTH - 1)"
    ELSE IF prm.full_rounds % 2 # 0 THEN "assert!(S::full_rounds() & 1 == 0)"
    ELSE "ok"

\* pub const WIDTH_CHOICES.
WIDTH_CHOICES == {2, 3, 4, 8, 12, 16, 20, 24}

\* configure also asserting that the width is one of WIDTH_CHOICES.
ConfigureAssertsWidthChecked(prm) ==
    IF prm.WIDTH \notin WIDTH_CHOICES THEN "assert!(WIDTH_CHOICES.contains(&WIDTH))"
    ELSE IF prm.RATE # prm.WIDTH - 1 THEN "assert_eq!(RATE, WIDTH - 1)"
    ELSE IF prm.full_rounds % 2 # 0 THEN "assert!(S::full_rounds() & 1 == 0)"
    ELSE IF prm.partial_rounds % 2 # 0 THEN "assert!(S::partial_rounds() & 1 == 0)"
    ELSE "ok"

\* The three assertions configure opens with; "ok" when all of them pass.
ConfigureAsserts(prm) ==
    IF prm.RATE # prm.WIDTH - 1 THEN "assert_eq!(RATE, WIDTH - 1)"
    ELSE IF prm.full_rounds % 2 # 0 THEN "assert!(S::full_rounds() & 1 == 0)"
    ELSE IF prm.partial_rounds % 2 # 0 THEN "assert!(S::partial_rounds() & 1 == 0)"
    ELSE "ok"

\* What configure registers once the assertions have passed.
ConfigureRegister(prm, m) ==
    [equality |-> m.equality
                    \cup {StateCol(i) : i \in 0 .. (prm.WIDTH - 1)}
                    \cup {PadCol(i) : i \in 0 .. (prm.WIDTH - 1)},
     selectors |-> m.selectors \o <<"s_full", "s_first", "s_partial", "s_pad_and_add">>,
     gates |-> m.gates \o <<"first layer", "full round", "partial rounds", "pad-and-add">>]

\* configure as a whole: the panic message (or "ok"), the ConstraintSystem
\* it leaves behind and the Pow5Config it returns.
ConfigureOutcome(prm, m) ==
    LET verdict == ConfigureAsserts(prm) IN
    IF verdict # "ok"
    THEN [verdict |-> verdict, meta |-> m, config |-> NoConfig]
    ELSE [verdict |-> "ok",
          meta |-> ConfigureRegister(prm, m),
          config |-> [configured |-> TRUE,
                      half_full_rounds |-> prm.full_rounds \div 2,
                      full_partial_rounds |-> prm.partial_rounds]]

Configure ==
    /\ pc = "unconfigured"
    /\ LET out == ConfigureOutcome(params, meta) IN
        /\ meta' = out.meta
        /\ config' = out.config
        /\ pc' = IF out.verdict = "ok" THEN "idle" ELSE "panicked"
        /\ result' = IF out.verdict = "ok" THEN NoResult ELSE Panic(out.verdict)
    /\ UNCHANGED <<params, regionName, log, args, state, r, trace, fault>>

\* ------------------------------------------------------------ region views
\* Positions in a log of the operations that assign the cell (col, row).
AssignIdx(lg, col, row) ==
    {k \in DOMAIN lg : lg[k].op \in AssignOps /\ lg[k].col = col /\ lg[k].row = row}

IsAssigned(lg, col, row) == AssignIdx(lg, col, row) # {}

\* The value a query of the cell (col, row) reads.
CellVal(lg, col, row) ==
    LET ks == AssignIdx(lg, col, row) IN
    lg[CHOOSE k \in ks : \A j \in ks : j <= k].val

\* Whether a selector is enabled on a row.
SelectorOn(lg, sel, row) ==
    \E k \in DOMAIN lg : lg[k].op = "enable" /\ lg[k].col = <<sel, 0>> /\ lg[k].row = row

\* The equality constraints a log records, each as the pair of its cells.
EqualityConstraints(lg, region) ==
    {<<lg[k].peer, CellOf(region, lg[k].col, lg[k].row)>> :
        k \in {j \in DOMAIN lg : lg[j].op \in {"copy_advice", "constrain_equal"}}}

\* ----------------------------------------------------------- initial_state
InitialStateRegion == "initial state"

\* initial_state loading zero into every word.
InitialStateOpsAllZero(rate, capacity) ==
    [k \in 1 .. (rate + 1) |-> AssignConstantOp(StateCol(k - 1), 0, 0)]

\* load_state_word for i in 0..RATE, then for RATE with the capacity element.
InitialStateOps(rate, capacity) ==
    [k \in 1 .. (rate + 1) |->
        AssignConstantOp(StateCol(k - 1), 0, IF k - 1 < rate THEN 0 ELSE capacity)]

\* The Vec of StateWords the closure pushes, one per operation.
InitialStateWords(ops) ==
    [i \in 0 .. (Len(ops) - 1) |->
        Word(CellOf(InitialStateRegion, ops[i + 1].col, ops[i + 1].row), ops[i + 1].val)]

InitialState ==
    /\ pc = "idle"
    /\ \E capacity \in Domains :
        LET ops == InitialStateOps(RATE, capacity) IN
        /\ log' = ops
        /\ args' = [NoArgs EXCEPT !.domain = capacity]
        /\ result' = Ok(InitialStateWords(ops))
    /\ regionName' = InitialStateRegion
    /\ pc' = "done"
    /\ UNCHANGED <<params, meta, config, state, r, trace, fault>>

\* --------------------------------------------------------------- add_input
AddInputRegion == "add input"

\* Load the initial state into a region: one copy_advice per word, row 0.
LoadStateOps(initial_state, w) ==
    [k \in 1 .. w |-> CopyAdviceOp(initial_state[k - 1], StateCol(k - 1), 0)]

\* The words copy_advice returns: the new cells, carrying the copied values.
LoadedState(region, initial_state, w) ==
    [i \in 0 .. (w - 1) |->
        Word(CellOf(region, StateCol(i), 0), initial_state[i].value)]

\* load_input_word leaving the padding cell unconstrained.
LoadInputWordOpsUnconstrained(slot, i) ==
    LET var == CellOf(AddInputRegion, StateCol(i), 1) IN
    IF slot.tag = "Message"
    THEN <<AssignAdviceOp(StateCol(i), 1, slot.value),
           ConstrainEqualOp(slot.cell, var)>>
    ELSE <<AssignFixedOp(PadCol(i), 1, slot.value),
           AssignAdviceOp(StateCol(i), 1, slot.value)>>

\* load_input_word(i) for a present slot: the operations it issues.
LoadInputWordOps(slot, i) ==
    LET var == CellOf(AddInputRegion, StateCol(i), 1) IN
    IF slot.tag = "Message"
    THEN <<AssignAdviceOp(StateCol(i), 1, slot.value),
           ConstrainEqualOp(slot.cell, var)>>
    ELSE <<AssignFixedOp(PadCol(i), 1, slot.value),
           AssignAdviceOp(StateCol(i), 1, slot.value),
           ConstrainEqualOp(CellOf(AddInputRegion, PadCol(i), 1), var)>>

\* load_input_word taking an absent slot for a zero message word.
RECURSIVE LoadInputOpsDefaulting(_, _, _)
LoadInputOpsDefaulting(input, i, rate) ==
    IF i = rate THEN [ops |-> <<>>, panicked |-> FALSE]
    ELSE LET rest == LoadInputOpsDefaulting(input, i + 1, rate)
             here == IF input[i].tag \in {"Message", "Padding"}
                     THEN LoadInputWordOps(input[i], i)
                     ELSE <<AssignAdviceOp(StateCol(i), 1, Known(0))>>
         IN  [ops |-> here \o rest.ops, panicked |-> rest.panicked]

\* (0..RATE).map(load_input_word).collect() from slot i on: the operations
\* issued and whether a slot that is neither Message nor Padding was met.
RECURSIVE LoadInputOps(_, _, _)
LoadInputOps(input, i, rate) ==
    IF i = rate THEN [ops |-> <<>>, panicked |-> FALSE]
    ELSE IF input[i].tag \notin {"Message", "Padding"}
    THEN [ops |-> <<>>, panicked |-> TRUE]
    ELSE LET rest == LoadInputOps(input, i + 1, rate) IN
         [ops |-> LoadInputWordOps(input[i], i) \o rest.ops, panicked |-> rest.panicked]

\* constrain_output_word adding a non-zero default to the capacity element.
OutputValueCapacityAltered(loaded, input, i, rate) ==
    VAdd(loaded[i].value, IF i < rate THEN input[i].value ELSE Known(1))

\* constrain_output_word passing the state through without the input.
OutputValueKeepsState(loaded, input, i, rate) ==
    VAdd(loaded[i].value, Known(0))

\* constrain_output_word(i): the value assigned at row 2.
OutputValue(loaded, input, i, rate) ==
    VAdd(loaded[i].value, IF i < rate THEN input[i].value ELSE Known(0))

ConstrainOutputOps(loaded, input, w, rate) ==
    [k \in 1 .. w |-> AssignAdviceOp(StateCol(k - 1), 2, OutputValue(loaded, input, k - 1, rate))]

\* add_input as a whole: the operations issued and what the call returns.
AddInputOutcome(initial_state, input, w, rate) ==
    LET head == <<EnableOp("s_pad_and_add", 1)>> \o LoadStateOps(initial_state, w)
        loaded == LoadedState(AddInputRegion, initial_state, w)
        words == LoadInputOps(input, 0, rate)
        out == ConstrainOutputOps(loaded, input, w, rate)
    IN  IF words.panicked
        THEN [ops |-> head \o words.ops, result |-> Panic("Input is not padded")]
        ELSE [ops |-> head \o words.ops \o out,
              result |-> Ok([i \in 0 .. (w - 1) |->
                              Word(CellOf(AddInputRegion, StateCol(i), 2), out[i + 1].val)])]

AddInput ==
    /\ pc = "idle"
    /\ \E initial_state \in CallerStates, input \in AbsorbingBlocks :
        LET out == AddInputOutcome(initial_state, input, WIDTH, RATE) IN
        /\ log' = out.ops
        /\ args' = [NoArgs EXCEPT !.initial_state = initial_state, !.input = input]
        /\ result' = out.result
    /\ regionName' = AddInputRegion
    /\ pc' = "done"
    /\ UNCHANGED <<params, meta, config, state, r, trace, fault>>

\* ----------------------------------------------------------------- permute
PermuteRegion == "permute state"

\* The errors an engine operation may fail with.
EngineErrors == {"Synthesis", "NotEnoughRowsAvailable"}

alpha == 5

\* The values carried by the words of a Pow5State.
ValuesOf(st, w) == [i \in 0 .. (w - 1) |-> st[i].value]

\* m_i folded over a known vector: sum_j m[i][j] * rv[j].
\* The external matrix with its indices transposed.
MixExternalTransposed(rv, i, w) ==
    FoldSum([j \in 0 .. (w - 1) |-> FMul(mat_external(j, i), rv[j])], w)

MixExternal(rv, i, w) ==
    FoldSum([j \in 0 .. (w - 1) |-> FMul(mat_external(i, j), rv[j])], w)

MixInternal(rv, i, w) ==
    FoldSum([j \in 0 .. (w - 1) |-> FMul(mat_internal(i, j), rv[j])], w)

\* next_state_word assigning a word only when its value is known.
NextStateOpsKnownOnly(next_state, offset, w) ==
    IF \A i \in 0 .. (w - 1) : next_state[i].known
    THEN [k \in 1 .. w |-> AssignAdviceOp(StateCol(k - 1), offset + 1, next_state[k - 1])]
    ELSE <<>>

\* The next row's words, as next_state_word assigns them at row offset + 1.
NextStateOps(next_state, offset, w) ==
    [k \in 1 .. w |-> AssignAdviceOp(StateCol(k - 1), offset + 1, next_state[k - 1])]

\* next_state_word binding the returned words to the row it was given.
NextStateSameRow(next_state, offset, w) ==
    [i \in 0 .. (w - 1) |->
        Word(CellOf(PermuteRegion, StateCol(i), offset), next_state[i])]

NextState(next_state, offset, w) ==
    [i \in 0 .. (w - 1) |->
        Word(CellOf(PermuteRegion, StateCol(i), offset + 1), next_state[i])]

\* first_layer: the values of row 1.
FirstLayerValues(st, w) ==
    LET rr == VCollect(ValuesOf(st, w), w) IN
    [i \in 0 .. (w - 1) |->
        IF rr.known THEN Known(MixExternal(rr.v, i, w)) ELSE UnknownV]

\* first_layer enabling its selector on the row it assigns.
FirstLayerOpsNextRow(st, w) ==
    <<EnableOp("s_first", 1)>> \o NextStateOps(FirstLayerValues(st, w), 0, w)

FirstLayerOps(st, w) ==
    <<EnableOp("s_first", 0)>> \o NextStateOps(FirstLayerValues(st, w), 0, w)

\* full_round's round_fn: the values of the next row.
FullRoundValues(st, round, w) ==
    LET q == [i \in 0 .. (w - 1) |->
                IF st[i].value.known
                THEN Known(FPow(FAdd(st[i].value.v, round_constants(round, i)), alpha))
                ELSE UnknownV]
        rr == VCollect(q, w)
    IN  [i \in 0 .. (w - 1) |->
            IF rr.known THEN Known(MixExternal(rr.v, i, w)) ELSE UnknownV]

\* partial_round with the round constant left out of the S-box input.
PartialRoundRNoConstant(st, round, w) ==
    LET p == VCollect(ValuesOf(st, w), w) IN
    IF p.known
    THEN Known([i \in 0 .. (w - 1) |-> IF i = 0 THEN FPow(p.v[0], alpha) ELSE p.v[i]])
    ELSE UnknownV

\* config.round_constants[round]: the constants of one round.
RoundConstantsRow(round, w) == [i \in 0 .. (w - 1) |-> round_constants(round, i)]

\* partial_round adding the round constant to every word, S-box on index 0.
PartialRoundRAllConstants(rc, st, w) ==
    LET p == VCollect(ValuesOf(st, w), w) IN
    IF p.known
    THEN Known([i \in 0 .. (w - 1) |->
                  IF i = 0 THEN FPow(FAdd(p.v[0], rc[0]), alpha)
                  ELSE FAdd(p.v[i], rc[i])])
    ELSE UnknownV

\* partial_round's round_fn given the round's constants rc: the vector r
\* (r_0 = (p[0] + rc[0])^alpha, r_i = p[i] for the other indices).
PartialRoundRWith(rc, st, w) ==
    LET p == VCollect(ValuesOf(st, w), w) IN
    IF p.known
    THEN Known([i \in 0 .. (w - 1) |->
                  IF i = 0 THEN FPow(FAdd(p.v[0], rc[0]), alpha)
                  ELSE p.v[i]])
    ELSE UnknownV

\* partial_round's round_fn: the vector r (S-box on index 0 only).
PartialRoundR(st, round, w) ==
    PartialRoundRWith(RoundConstantsRow(round, w), st, w)

\* The value witnessed into the partial_sbox column.
PartialSboxValue(st, round, w) ==
    LET rr == PartialRoundR(st, round, w) IN
    IF rr.known THEN Known(rr.v[0]) ELSE UnknownV

PartialRoundValues(st, round, w) ==
    LET rr == PartialRoundR(st, round, w) IN
    [i \in 0 .. (w - 1) |->
        IF rr.known THEN Known(MixInternal(rr.v, i, w)) ELSE UnknownV]

\* round assigning the next row before it loads the round constants.
RoundOpsNextRowFirst(round, offset, round_gate, fn_ops, next_state, w) ==
    <<EnableOp(round_gate, offset)>>
    \o NextStateOps(next_state, offset, w)
    \o [k \in 1 .. w |->
          AssignFixedOp(RcCol(k - 1), offset, Known(round_constants(round, k - 1)))]
    \o fn_ops

\* round: enable the gate, load the round constants, run round_fn (fn_ops are
\* the operations round_fn itself issues), assign the next row.
RoundOps(round, offset, round_gate, fn_ops, next_state, w) ==
    <<EnableOp(round_gate, offset)>>
    \o [k \in 1 .. w |->
          AssignFixedOp(RcCol(k - 1), offset, Known(round_constants(round, k - 1)))]
    \o fn_ops
    \o NextStateOps(next_state, offset, w)

\* partial_round leaving the partial_sbox cell unassigned.
PartialRoundOpsNoSbox(st, round, offset, w) ==
    RoundOps(round, offset, "s_partial", <<>>, PartialRoundValues(st, round, w), w)

FullRoundOps(st, round, offset, w) ==
    RoundOps(round, offset, "s_full", <<>>, FullRoundValues(st, round, w), w)

PartialRoundOps(st, round, offset, w) ==
    RoundOps(round, offset, "s_partial",
             <<AssignAdviceOp(PartialSboxCol, offset, PartialSboxValue(st, round, w))>>,
             PartialRoundValues(st, round, w), w)

\* Where permute's closure stands once a fold is entered with index i.
EnterSecondFullRounds(i) ==
    IF i < config.half_full_rounds THEN <<"full_rounds_2", i>> ELSE <<"return", 0>>

EnterPartialRounds(i) ==
    IF i < config.full_partial_rounds THEN <<"partial_rounds", i>>
    ELSE EnterSecondFullRounds(0)

EnterFirstFullRounds(i) ==
    IF i < config.half_full_rounds THEN <<"full_rounds_1", i>> ELSE EnterPartialRounds(0)

\* The round index each fold hands to full_round / partial_round; the row
\* offset it hands over is that index plus one.
FirstFullRoundIndex(i) == i

PartialRoundIndex(i) == config.half_full_rounds + i

\* The third fold restarting from the end of the first one.
SecondFullRoundIndexRestart(i) == config.half_full_rounds + i

SecondFullRoundIndex(i) == config.half_full_rounds + config.full_partial_rounds + i

\* The closure dropping the error of a failed operation and carrying on with
\* the operations that follow it.
StepSwallowingErrors(name, round, offset, ops, next_state, next_pc, k, e) ==
    /\ trace' = Append(trace, [step |-> name, round |-> round, offset |-> offset])
    /\ fault' = IF k = 0 \/ fault # NoFault THEN fault
                ELSE [at |-> Len(log) + k, error |-> e]
    /\ log' = log \o (IF k = 0 THEN ops ELSE SubSeq(ops, 1, k - 1) \o SubSeq(ops, k + 1, Len(ops)))
    /\ state' = next_state
    /\ pc' = next_pc[1]
    /\ r' = next_pc[2]
    /\ result' = NoResult

\* One step of permute's closure: it issues ops against the region; k = 0 when
\* every operation succeeds, otherwise operation k fails with error e and the
\* closure returns it (the ? operator); fault records what the engine reported.
Step(name, round, offset, ops, next_state, next_pc, k, e) ==
    /\ trace' = Append(trace, [step |-> name, round |-> round, offset |-> offset])
    /\ IF k = 0
       THEN /\ log' = log \o ops
            /\ state' = next_state
            /\ pc' = next_pc[1]
            /\ r' = next_pc[2]
            /\ result' = NoResult
            /\ fault' = fault
       ELSE /\ log' = log \o SubSeq(ops, 1, k - 1)
            /\ state' = state
            /\ pc' = "done"
            /\ r' = r
            /\ result' = Err(e)
            /\ fault' = [at |-> Len(log) + k, error |-> e]

\* Pow5State::load, in the region permute opens.
Load ==
    /\ pc = "idle"
    /\ \E initial_state \in CallerStates :
        LET ops == LoadStateOps(initial_state, WIDTH) IN
        /\ args' = [NoArgs EXCEPT !.initial_state = initial_state]
        /\ regionName' = PermuteRegion
        /\ \E k \in 0 .. Len(ops), e \in EngineErrors :
            /\ (k = 0 => e = "Synthesis")
            /\ Step("load", 0, 0, ops, LoadedState(PermuteRegion, initial_state, WIDTH),
                    <<"first_layer", 0>>, k, e)
    /\ UNCHANGED <<params, meta, config>>

FirstLayer ==
    /\ pc = "first_layer"
    /\ LET ops == FirstLayerOps(state, WIDTH) IN
        \E k \in 0 .. Len(ops), e \in EngineErrors :
            /\ (k = 0 => e = "Synthesis")
            /\ Step("first_layer", 0, 0, ops, NextState(FirstLayerValues(state, WIDTH), 0, WIDTH),
                    EnterFirstFullRounds(0), k, e)
    /\ UNCHANGED <<params, meta, config, regionName, args>>

\* The first fold: full_round(r, r + 1) for r in 0..half_full_rounds.
FirstFullRounds ==
    /\ pc = "full_rounds_1"
    /\ LET round == FirstFullRoundIndex(r)
           offset == FirstFullRoundIndex(r) + 1
           ops == FullRoundOps(state, round, offset, WIDTH)
       IN \E k \in 0 .. Len(ops), e \in EngineErrors :
            /\ (k = 0 => e = "Synthesis")
            /\ Step("full_round", round, offset, ops,
                    NextState(FullRoundValues(state, round, WIDTH), offset, WIDTH),
                    EnterFirstFullRounds(r + 1), k, e)
    /\ UNCHANGED <<params, meta, config, regionName, args>>

\* The second fold: partial_round(half + r, half + r + 1).
PartialRounds ==
    /\ pc = "partial_rounds"
    /\ LET round == PartialRoundIndex(r)
           offset == PartialRoundIndex(r) + 1
           ops == PartialRoundOps(state, round, offset, WIDTH)
       IN \E k \in 0 .. Len(ops), e \in EngineErrors :
            /\ (k = 0 => e = "Synthesis")
            /\ Step("partial_round", round, offset, ops,
                    NextState(PartialRoundValues(state, round, WIDTH), offset, WIDTH),
                    EnterPartialRounds(r + 1), k, e)
    /\ UNCHANGED <<params, meta, config, regionName, args>>

\* The third fold: full_round(half + partial + r, half + partial + r + 1).
SecondFullRounds ==
    /\ pc = "full_rounds_2"
    /\ LET round == SecondFullRoundIndex(r)
           offset == SecondFullRoundIndex(r) + 1
           ops == FullRoundOps(state, round, offset, WIDTH)
       IN \E k \in 0 .. Len(ops), e \in EngineErrors :
            /\ (k = 0 => e = "Synthesis")
            /\ Step("full_round", round, offset, ops,
                    NextState(FullRoundValues(state, round, WIDTH), offset, WIDTH),
                    EnterSecondFullRounds(r + 1), k, e)
    /\ UNCHANGED <<params, meta, config, regionName, args>>

\* Ok(state.0): the closure returns the State bound to the last row.
Return ==
    /\ pc = "return"
    /\ result' = Ok(state)
    /\ pc' = "done"
    /\ UNCHANGED <<params, meta, config, regionName, log, args, state, r, trace, fault>>

Next ==
    \/ Configure
    \/ InitialState
    \/ AddInput
    \/ Load
    \/ FirstLayer
    \/ FirstFullRounds
    \/ PartialRounds
    \/ SecondFullRounds
    \/ Return

Spec == Init /\ [][Next]_vars

\* ------------------------------------------------- the gates of configure
\* The value a gate's query of (col, row) reads from the region.
Q(lg, col, row) == CellVal(lg, col, row).v

\* Whether every cell of a set is assigned a known value in the region.
AllKnown(lg, cells) ==
    \A c \in cells : IsAssigned(lg, c[1], c[2]) /\ CellVal(lg, c[1], c[2]).known

\* pow_5 of configure: two squarings and one multiplication.
pow_5(v) ==
    LET v2 == FMul(v, v) IN FMul(FMul(v2, v2), v)

\* "first layer": sum_idx cur[idx] * mat_external[next_idx][idx] - next[next_idx].
FirstLayerGate(lg, row, w) ==
    [next_idx \in 0 .. (w - 1) |->
        FSub(FoldSum([idx \in 0 .. (w - 1) |->
                        FMul(Q(lg, StateCol(idx), row), mat_external(next_idx, idx))], w),
             Q(lg, StateCol(next_idx), row + 1))]

\* "full round": sum_idx pow_5(cur[idx] + rc_a[idx]) * mat_external[next_idx][idx]
\* - next[next_idx].
FullRoundGate(lg, row, w) ==
    [next_idx \in 0 .. (w - 1) |->
        FSub(FoldSum([idx \in 0 .. (w - 1) |->
                        FMul(pow_5(FAdd(Q(lg, StateCol(idx), row), Q(lg, RcCol(idx), row))),
                             mat_external(next_idx, idx))], w),
             Q(lg, StateCol(next_idx), row + 1))]

\* "partial rounds", first constraint: pow_5(cur_0 + rc_a0) - mid_0.
PartialSboxGate(lg, row) ==
    FSub(pow_5(FAdd(Q(lg, StateCol(0), row), Q(lg, RcCol(0), row))),
         Q(lg, PartialSboxCol, row))

\* "partial rounds", the linear constraints: mid(idx) - next(idx), where
\* mid(idx) = mid_0 * mat_internal[idx][0] + sum_{cur_idx >= 1} cur * mat_internal[idx][cur_idx].
PartialLinearGate(lg, row, w) ==
    [idx \in 0 .. (w - 1) |->
        FSub(FoldSum([cur_idx \in 0 .. (w - 1) |->
                        IF cur_idx = 0
                        THEN FMul(Q(lg, PartialSboxCol, row), mat_internal(idx, 0))
                        ELSE FMul(Q(lg, StateCol(cur_idx), row), mat_internal(idx, cur_idx))], w),
             Q(lg, StateCol(idx), row + 1))]

\* "pad-and-add": initial_state + input - output_state for idx < RATE, and
\* initial_state_rate - output_state_rate for the capacity element.
PadAndAddGate(lg, row, rate) ==
    [idx \in 0 .. rate |->
        IF idx < rate
        THEN FSub(FAdd(Q(lg, StateCol(idx), row - 1), Q(lg, StateCol(idx), row)),
                  Q(lg, StateCol(idx), row + 1))
        ELSE FSub(Q(lg, StateCol(rate), row - 1), Q(lg, StateCol(rate), row + 1))]

\* The cells each gate queries on a row.
StateCells(row, w) == {<<StateCol(i), row>> : i \in 0 .. (w - 1)}

RcCells(row, w) == {<<RcCol(i), row>> : i \in 0 .. (w - 1)}

FirstLayerCells(row, w) == StateCells(row, w) \cup StateCells(row + 1, w)

FullRoundCells(row, w) == StateCells(row, w) \cup RcCells(row, w) \cup StateCells(row + 1, w)

PartialRoundCells(row, w) ==
    StateCells(row, w) \cup {<<RcCol(0), row>>, <<PartialSboxCol, row>>}
    \cup StateCells(row + 1, w)

PadAndAddCells(row, w, rate) ==
    StateCells(row - 1, w) \cup {<<StateCol(i), row>> : i \in 0 .. (rate - 1)}
    \cup StateCells(row + 1, w)

\* A gate is satisfied on a row when every cell it queries holds a known
\* value and every one of its polynomials evaluates to zero.
FirstLayerSatisfied(lg, row, w) ==
    /\ AllKnown(lg, FirstLayerCells(row, w))
    /\ \A i \in 0 .. (w - 1) : FirstLayerGate(lg, row, w)[i] = 0

FullRoundSatisfied(lg, row, w) ==
    /\ AllKnown(lg, FullRoundCells(row, w))
    /\ \A i \in 0 .. (w - 1) : FullRoundGate(lg, row, w)[i] = 0

PartialRoundSatisfied(lg, row, w) ==
    /\ AllKnown(lg, PartialRoundCells(row, w))
    /\ PartialSboxGate(lg, row) = 0
    /\ \A i \in 0 .. (w - 1) : PartialLinearGate(lg, row, w)[i] = 0

PadAndAddSatisfied(lg, row, w, rate) ==
    /\ AllKnown(lg, PadAndAddCells(row, w, rate))
    /\ \A i \in 0 .. rate : PadAndAddGate(lg, row, rate)[i] = 0

\* ------------------------------------------------------- shared vocabulary
total_rounds == 2 * config.half_full_rounds + config.full_partial_rounds

\* The rows a log touches.
Rows(lg) == {lg[k].row : k \in DOMAIN lg}

InputsKnown == \A i \in DOMAIN args.initial_state : args.initial_state[i].value.known

PermuteRunning == regionName = PermuteRegion /\ result.kind # "Err"

PermuteReturned == regionName = PermuteRegion /\ pc = "done" /\ result.kind = "Ok"

AddInputReturned == regionName = AddInputRegion /\ pc = "done" /\ result.kind = "Ok"

InitialStateReturned == regionName = InitialStateRegion /\ pc = "done" /\ result.kind = "Ok"

\* ---------------------------------------------------------------------- C1
\* C1: for known inputs, the rows permute has written satisfy the gate of
\* every selector enabled on them: "first layer" on row 0, "full round" on
\* each full-round row, both "partial rounds" identities on each
\* partial-round row.
C1_GateIdentitiesHold ==
    (PermuteRunning /\ InputsKnown) =>
        /\ \A row \in Rows(log) :
            /\ SelectorOn(log, "s_first", row) => (row = 0 /\ FirstLayerSatisfied(log, row, WIDTH))
            /\ SelectorOn(log, "s_full", row) => FullRoundSatisfied(log, row, WIDTH)
            /\ SelectorOn(log, "s_partial", row) => PartialRoundSatisfied(log, row, WIDTH)
        /\ \A k \in DOMAIN trace :
            /\ trace[k].step = "first_layer" =>
                 SelectorOn(log, "s_first", 0) /\ FirstLayerSatisfied(log, 0, WIDTH)
            /\ trace[k].step = "full_round" =>
                 /\ SelectorOn(log, "s_full", trace[k].offset)
                 /\ FullRoundSatisfied(log, trace[k].offset, WIDTH)
            /\ trace[k].step = "partial_round" =>
                 /\ SelectorOn(log, "s_partial", trace[k].offset)
                 /\ PartialRoundSatisfied(log, trace[k].offset, WIDTH)

\* A returned permutation on known inputs with all three gates in use.
C1_Witness ==
    /\ PermuteReturned /\ InputsKnown
    /\ WIDTH = 3
    /\ \E i \in Idx : args.initial_state[i].value.v # 0
    /\ SelectorOn(log, "s_first", 0)
    /\ \E row \in Rows(log) : SelectorOn(log, "s_full", row)
    /\ \E row \in Rows(log) : SelectorOn(log, "s_partial", row)

\* ---------------------------------------------------------------------- C2
\* The plain permutation permute is compared with: the external matrix
\* applied once, then the rounds 0 .. total-1, round k a full round when
\* k < half or k >= half + partial and a partial round otherwise, round k
\* using round-constant row k.
RefSbox(x) == (x * x * x * x * x) % P

RECURSIVE RefDot(_, _, _)
RefDot(row, v, n) ==
    IF n = 0 THEN 0 ELSE (row[n - 1] * v[n - 1] + RefDot(row, v, n - 1)) % P

RefExternal(v, w) ==
    [i \in 0 .. (w - 1) |-> RefDot([j \in 0 .. (w - 1) |-> mat_external(i, j)], v, w)]

RefInternal(v, w) ==
    [i \in 0 .. (w - 1) |-> RefDot([j \in 0 .. (w - 1) |-> mat_internal(i, j)], v, w)]

RefFullRound(v, k, w) ==
    RefExternal([j \in 0 .. (w - 1) |-> RefSbox((v[j] + round_constants(k, j)) % P)], w)

RefPartialRound(v, k, w) ==
    RefInternal([j \in 0 .. (w - 1) |->
                   IF j = 0 THEN RefSbox((v[0] + round_constants(k, 0)) % P) ELSE v[j]], w)

RECURSIVE RefRounds(_, _, _, _, _)
RefRounds(v, k, half, partial, w) ==
    IF k = 2 * half + partial THEN v
    ELSE RefRounds(IF k < half \/ k >= half + partial
                   THEN RefFullRound(v, k, w)
                   ELSE RefPartialRound(v, k, w),
                   k + 1, half, partial, w)

RefPermute(v, half, partial, w) == RefRounds(RefExternal(v, w), 0, half, partial, w)

\* C2: the State permute returns carries, component-wise, the output of the
\* plain permutation on the same input.
C2_MatchesReference ==
    (PermuteReturned /\ InputsKnown) =>
        LET input == [i \in Idx |-> args.initial_state[i].value.v]
            expected == RefPermute(input, config.half_full_rounds,
                                   config.full_partial_rounds, WIDTH)
        IN  /\ DOMAIN result.state = Idx
            /\ \A i \in Idx : result.state[i].value = Known(expected[i])

\* A returned permutation of a non-zero known input of width 3 with full and
\* partial rounds.
C2_Witness ==
    /\ PermuteReturned /\ InputsKnown
    /\ WIDTH = 3
    /\ config.half_full_rounds = 2 /\ config.full_partial_rounds = 2
    /\ \A i \in Idx : args.initial_state[i].value.v = 1

\* ---------------------------------------------------------------------- C3
\* The steps a permutation runs, in order: load, first_layer, then round k at
\* row k + 1 for k = 0 .. total_rounds - 1.
ExpectedTrace ==
    <<[step |-> "load", round |-> 0, offset |-> 0],
      [step |-> "first_layer", round |-> 0, offset |-> 0]>>
    \o [n \in 1 .. total_rounds |->
          [step |-> IF (n - 1) < config.half_full_rounds
                       \/ (n - 1) >= config.half_full_rounds + config.full_partial_rounds
                    THEN "full_round" ELSE "partial_round",
           round |-> n - 1,
           offset |-> n]]

IsPrefix(s, t) == Len(s) <= Len(t) /\ SubSeq(t, 1, Len(s)) = s

\* C3: permute runs load, first_layer, half_full_rounds full rounds,
\* partial_rounds partial rounds, half_full_rounds full rounds, in that order;
\* it consumes the round indices 0 .. total_rounds - 1 once each, increasing;
\* round k's constants are loaded on row k + 1; first_layer loads none.
C3_StepOrder ==
    regionName = PermuteRegion =>
        /\ IsPrefix(trace, ExpectedTrace)
        /\ \A i \in Idx : ~IsAssigned(log, RcCol(i), 0)
        /\ PermuteRunning =>
             \A n \in DOMAIN trace :
                trace[n].step \in {"full_round", "partial_round"} =>
                    \A i \in Idx :
                        /\ Cardinality(AssignIdx(log, RcCol(i), trace[n].round + 1)) = 1
                        /\ CellVal(log, RcCol(i), trace[n].round + 1)
                             = Known(round_constants(trace[n].round, i))
        /\ PermuteReturned => trace = ExpectedTrace

\* A returned permutation with two full rounds on each side of two partial ones.
C3_Witness ==
    /\ PermuteReturned
    /\ config.half_full_rounds = 2 /\ config.full_partial_rounds = 2
    /\ Len(trace) = 8

\* ---------------------------------------------------------------------- C4
RoundSelectors == {"s_first", "s_full", "s_partial"}

SelectorsOn(lg, row) == {sel \in RoundSelectors : SelectorOn(lg, sel, row)}

\* C4: in a permutation region every row but the last has exactly one of
\* s_first, s_full, s_partial enabled, and s_pad_and_add is enabled nowhere in
\* it; in an add_input region s_pad_and_add is enabled on row 1 only.
C4_SelectorExclusivity ==
    /\ regionName = PermuteRegion =>
         /\ \A row \in Rows(log) :
              /\ Cardinality(SelectorsOn(log, row)) <= 1
              /\ ~SelectorOn(log, "s_pad_and_add", row)
         /\ PermuteRunning
              => \A row \in Rows(log) :
                    (\E later \in Rows(log) : later > row)
                        => Cardinality(SelectorsOn(log, row)) = 1
         /\ PermuteReturned
              => /\ Rows(log) = 0 .. (total_rounds + 1)
                 /\ \A row \in 0 .. total_rounds : Cardinality(SelectorsOn(log, row)) = 1
    /\ \A row \in Rows(log) :
         SelectorOn(log, "s_pad_and_add", row) => (regionName = AddInputRegion /\ row = 1)
    /\ regionName = AddInputRegion => SelectorOn(log, "s_pad_and_add", 1)

\* A returned permutation with rows of all three kinds.
C4_Witness ==
    /\ PermuteReturned
    /\ SelectorsOn(log, 0) = {"s_first"}
    /\ SelectorsOn(log, 1) = {"s_full"}
    /\ SelectorsOn(log, 2) = {"s_partial"}
    /\ SelectorsOn(log, 4) = {"s_full"}

\* ---------------------------------------------------------------------- C5
\* The tags of the slots of the block handed to add_input.
Tags == {args.input[i].tag : i \in DOMAIN args.input}

\* C5: the capacity element (index RATE) of the State add_input returns
\* carries the value of the capacity element of the State passed in, for
\* all-message, all-padding and mixed blocks.
C5_CapacityUnchanged ==
    AddInputReturned =>
        /\ result.state[RATE].value = args.initial_state[RATE].value
        /\ result.state[RATE].cell = CellOf(AddInputRegion, StateCol(RATE), 2)
        /\ CellVal(log, StateCol(RATE), 2) = args.initial_state[RATE].value

\* A returned add_input of a mixed block onto a state whose capacity is 1.
C5_Witness ==
    /\ AddInputReturned
    /\ Tags = {"Message", "Padding"}
    /\ args.initial_state[RATE].value = Known(1)
    /\ \E i \in DOMAIN args.input : args.input[i].value = Known(1)

\* ---------------------------------------------------------------------- C6
\* The value of cell c when the cell `cell` is made to hold x instead of
\* what the log assigned to it.
ValWith(lg, cell, x, c) ==
    IF c = cell THEN Known(x) ELSE CellVal(lg, c.col, c.row)

\* Whether the equality constraints recorded between cells of the region,
\* on equality-enabled columns, reject the assignment that puts x in `cell`.
Rejected(lg, region, cell, x) ==
    \E pair \in EqualityConstraints(lg, region) :
        /\ pair[1].region = region /\ pair[2].region = region
        /\ pair[1].col \in meta.equality /\ pair[2].col \in meta.equality
        /\ IsAssigned(lg, pair[1].col, pair[1].row)
        /\ IsAssigned(lg, pair[2].col, pair[2].row)
        /\ ValWith(lg, cell, x, pair[1]) # ValWith(lg, cell, x, pair[2])

\* C6: for a slot i that is Padding(x) (and that add_input reaches: no slot up
\* to i is absent), add_input writes x into the fixed
\* column pad_fixed[i] at row 1 and constrains that cell equal to the advice
\* cell state[i] at row 1, so that any other value in the advice cell violates
\* a recorded equality constraint.
C6_PaddingEnforced ==
    regionName = AddInputRegion =>
        \A i \in 0 .. (RATE - 1) :
            (/\ args.input[i].tag = "Padding"
             /\ \A j \in 0 .. i : args.input[j].tag # "None") =>
                LET fixed == CellOf(AddInputRegion, PadCol(i), 1)
                    advice == CellOf(AddInputRegion, StateCol(i), 1)
                IN  /\ \E k \in DOMAIN log :
                          log[k] = AssignFixedOp(PadCol(i), 1, args.input[i].value)
                    /\ CellVal(log, PadCol(i), 1) = args.input[i].value
                    /\ CellVal(log, StateCol(i), 1) = args.input[i].value
                    /\ <<fixed, advice>> \in EqualityConstraints(log, AddInputRegion)
                    /\ {PadCol(i), StateCol(i)} \subseteq meta.equality
                    /\ ~Rejected(log, AddInputRegion, advice, args.input[i].value.v)
                    /\ \A x \in F \ {args.input[i].value.v} :
                          Rejected(log, AddInputRegion, advice, x)

\* A returned add_input whose block holds the padding constant 1.
C6_Witness ==
    /\ AddInputReturned
    /\ \E i \in 0 .. (RATE - 1) : args.input[i] = Padding(1)

\* ---------------------------------------------------------------------- C7
InvalidParams ==
    \/ RATE # WIDTH - 1
    \/ params.full_rounds % 2 = 1
    \/ params.partial_rounds % 2 = 1

\* C7: with rate # width - 1, or an odd full_rounds, or an odd partial_rounds,
\* configure panics, and it does so with no equality, selector or gate
\* registered and no row assigned.
C7_ConfigureRejects ==
    (InvalidParams /\ pc # "unconfigured") =>
        /\ pc = "panicked"
        /\ result.kind = "Panic"
        /\ meta = [equality |-> {}, selectors |-> <<>>, gates |-> <<>>]
        /\ config = NoConfig
        /\ log = <<>>
        /\ regionName = "none"

\* configure has panicked on an odd partial_rounds alone.
C7_Witness ==
    /\ pc = "panicked"
    /\ RATE = WIDTH - 1
    /\ params.full_rounds % 2 = 0
    /\ params.partial_rounds % 2 = 1

\* ---------------------------------------------------------------------- C8
AbsentSlots == {i \in DOMAIN args.input : args.input[i].tag = "None"}

FirstAbsent == CHOOSE i \in AbsentSlots : \A j \in AbsentSlots : i <= j

\* C8 as stated: an absent slot makes add_input return the error
\* InvalidAbsorbState to its caller.
C8_ReturnsInvalidAbsorbState ==
    (regionName = AddInputRegion /\ AbsentSlots # {}) =>
        /\ result.kind = "Err"
        /\ result.error = "InvalidAbsorbState"

\* C8 (amended): an absent slot makes add_input panic with "Input is not
\* padded" when it reaches the first such slot: after pad_and_add is enabled,
\* the state is copied into row 0 and the slots before it are loaded.  It
\* returns no State, assigns nothing for the absent slot or any later one,
\* and assigns no output row.
C8_AbsentSlotPanics ==
    (regionName = AddInputRegion /\ AbsentSlots # {}) =>
        /\ result = Panic("Input is not padded")
        /\ \A j \in Idx : IsAssigned(log, StateCol(j), 0)
        /\ \A j \in 0 .. (RATE - 1) :
             /\ j < FirstAbsent => IsAssigned(log, StateCol(j), 1)
             /\ j >= FirstAbsent =>
                  ~IsAssigned(log, StateCol(j), 1) /\ ~IsAssigned(log, PadCol(j), 1)
        /\ \A j \in Idx : ~IsAssigned(log, StateCol(j), 2)

\* add_input was handed a block whose second slot is absent and whose first
\* is a message word.
C8_Witness ==
    /\ regionName = AddInputRegion
    /\ RATE = 2
    /\ args.input[0].tag = "Message"
    /\ args.input[1].tag = "None"
    /\ result.kind = "Panic"

\* ---------------------------------------------------------------------- C9
BlockKnown == \A i \in DOMAIN args.input : args.input[i].value.known

\* C9: add_input assigns row 0 the copied state, row 1 the input words and
\* row 2 next[i] = state[i] + absorbing[i].value for i < RATE; with known
\* values the three rows satisfy prev[i] + cur[i] - next[i] = 0 at row 1.
C9_PadAndAdd ==
    AddInputReturned =>
        /\ \A i \in Idx : CellVal(log, StateCol(i), 0) = args.initial_state[i].value
        /\ \A i \in 0 .. (RATE - 1) :
            LET a == args.initial_state[i].value
                b == args.input[i].value
                sum == IF a.known /\ b.known THEN Known((a.v + b.v) % P) ELSE UnknownV
            IN  /\ CellVal(log, StateCol(i), 1) = b
                /\ CellVal(log, StateCol(i), 2) = sum
                /\ result.state[i] = Word(CellOf(AddInputRegion, StateCol(i), 2), sum)
        /\ (InputsKnown /\ BlockKnown) =>
             /\ SelectorOn(log, "s_pad_and_add", 1)
             /\ AllKnown(log, PadAndAddCells(1, WIDTH, RATE))
             /\ \A i \in 0 .. (RATE - 1) : PadAndAddGate(log, 1, RATE)[i] = 0

\* A returned add_input of known non-zero words onto a known non-zero state.
C9_Witness ==
    /\ AddInputReturned
    /\ InputsKnown /\ BlockKnown
    /\ RATE = 2
    /\ \A i \in 0 .. (RATE - 1) :
          args.initial_state[i].value.v = 1 /\ args.input[i].value.v = 1

\* --------------------------------------------------------------------- C10
\* C10: initial_state returns exactly WIDTH cells, all on row 0 of its own
\* region, each assigned once from a constant: zero at every index below RATE
\* and the domain's initial capacity element at index RATE.
C10_InitialState ==
    InitialStateReturned =>
        /\ DOMAIN result.state = Idx
        /\ Len(log) = WIDTH
        /\ Rows(log) = {0}
        /\ \A k \in DOMAIN log : log[k].op = "assign_advice_from_constant"
        /\ \A i \in Idx :
            LET x == IF i < RATE THEN 0 ELSE args.domain IN
            /\ result.state[i] = Word(CellOf(InitialStateRegion, StateCol(i), 0), Known(x))
            /\ Cardinality(AssignIdx(log, StateCol(i), 0)) = 1
            /\ CellVal(log, StateCol(i), 0) = Known(x)

\* initial_state has returned for a domain whose capacity element is 1.
C10_Witness ==
    /\ InitialStateReturned
    /\ WIDTH = 3
    /\ args.domain = 1

\* --------------------------------------------------------------------- C11
\* What holds of a permutation that has returned: it ran 1 + total_rounds
\* row transitions after load, its region is the rows 0 .. total_rounds + 1,
\* each state row assigned once, and the State it returns is bound to the
\* last of them.  total_rounds is full_rounds + partial_rounds of the Spec.
PermuteRowCount ==
    /\ regionName = PermuteRegion => Len(trace) <= 2 + total_rounds
    /\ PermuteReturned =>
        /\ total_rounds = params.full_rounds + params.partial_rounds
        /\ Len(trace) - 1 = 1 + total_rounds
        /\ Rows(log) = 0 .. (total_rounds + 1)
        /\ \A row \in 0 .. (total_rounds + 1), i \in Idx :
              Cardinality(AssignIdx(log, StateCol(i), row)) = 1
        /\ \A i \in Idx :
              /\ result.state[i].cell = CellOf(PermuteRegion, StateCol(i), total_rounds + 1)
              /\ result.state[i].value = CellVal(log, StateCol(i), total_rounds + 1)

\* C11: a permute call never gets stuck before it ends (until it is done a
\* step is enabled, and each step lengthens the bounded trace or ends the
\* call), and one whose engine operations all succeed ends after exactly
\* 1 + total_rounds row transitions (rows 0 .. total_rounds + 1, whatever the
\* input values), returning the State bound to row total_rounds + 1.
C11_Terminates ==
    /\ PermuteRowCount
    /\ (regionName = PermuteRegion /\ pc # "done") => ENABLED Next

\* A permutation of unknown inputs has returned after seven row transitions.
C11_Witness ==
    /\ PermuteReturned
    /\ ~InputsKnown
    /\ total_rounds = 6
    /\ Rows(log) = 0 .. 7

\* --------------------------------------------------------------------- C12
\* The rows of a log on which a selector is enabled.
RowsWith(lg, sel) == {row \in Rows(lg) : SelectorOn(lg, sel, row)}

\* The partial rounds whose trace entry sits on a row.
PartialRoundsOn(row) ==
    {k \in DOMAIN trace : trace[k].step = "partial_round" /\ trace[k].offset = row}

\* C12: a returned permutation has one row per full round and one row per
\* pair of partial rounds: s_full is enabled on full_rounds rows, s_partial on
\* partial_rounds / 2 rows, and each s_partial row covers two consecutive
\* partial rounds.
C12_TwoPartialRoundsPerRow ==
    PermuteReturned =>
        /\ Cardinality(RowsWith(log, "s_full")) = params.full_rounds
        /\ Cardinality(RowsWith(log, "s_partial")) = params.partial_rounds \div 2
        /\ \A row \in RowsWith(log, "s_partial") :
              \E k \in PartialRoundsOn(row) :
                  /\ k + 1 \in PartialRoundsOn(row)
                  /\ trace[k + 1].round = trace[k].round + 1

\* --------------------------------------------------------------------- C13
\* The positions of a log that assign a cell, and those that write at all
\* (assign a cell or enable a selector).
Assignments(lg) == {k \in DOMAIN lg : lg[k].op \in AssignOps}

Writes(lg) == {k \in DOMAIN lg : lg[k].op \in AssignOps \cup {"enable"}}

StateAssignments(lg) ==
    {k \in Assignments(lg) : \E i \in Idx : lg[k].col = StateCol(i)}

\* No position of ks is followed by a position of ks on a lower row.
RowOrdered(lg, ks) == \A j, k \in ks : j < k => lg[j].row <= lg[k].row

\* The state rows are assigned in the order row 0, row 1, row 2, ...
StateRowsInOrder(lg) ==
    /\ RowOrdered(lg, StateAssignments(lg))
    /\ \A k \in StateAssignments(lg) :
          lg[k].row > 0 =>
              \E j \in StateAssignments(lg) : j < k /\ lg[j].row = lg[k].row - 1

InRoundRegion == regionName \in {PermuteRegion, AddInputRegion}

\* The claim as first stated: in a region of permute or add_input no cell
\* assignment or selector enabling is followed by one on a lower row.
C13_WritesRowOrdered ==
    InRoundRegion =>
        /\ RowOrdered(log, Writes(log))
        /\ StateRowsInOrder(log)

\* C13: in a region of permute or add_input no cell assignment is followed
\* by a cell assignment on a lower row and the state rows are assigned in the
\* order row 0, row 1, row 2, ...; in a permute region the selector enablings
\* keep that order too; in an add_input region the one selector enabling,
\* s_pad_and_add on row 1, is the first operation, ahead of the row-0 copies,
\* and every write after it keeps the order.
C13_AssignmentsRowOrdered ==
    /\ InRoundRegion =>
        /\ RowOrdered(log, Assignments(log))
        /\ StateRowsInOrder(log)
    /\ regionName = PermuteRegion => RowOrdered(log, Writes(log))
    /\ regionName = AddInputRegion =>
        /\ log[1] = EnableOp("s_pad_and_add", 1)
        /\ \A k \in Writes(log) : log[k].op = "enable" => k = 1
        /\ \A k \in 2 .. (WIDTH + 1) : log[k].op = "copy_advice" /\ log[k].row = 0
        /\ RowOrdered(log, Writes(log) \ {1})

\* add_input has returned a region whose rows 0, 1 and 2 were all written
\* after s_pad_and_add was enabled on row 1.
C13_Witness ==
    /\ AddInputReturned
    /\ log[1].op = "enable" /\ log[1].row = 1
    /\ log[2].row = 0
    /\ {log[k].row : k \in Assignments(log)} = {0, 1, 2}

\* --------------------------------------------------------------------- C16
EngineFailed == fault # NoFault

\* C16: when an engine operation of permute fails, permute returns exactly
\* the error the engine reported, the region holds the operations issued
\* before the failed one and nothing after it, the step that failed is the
\* last one run, and nothing further can run; permute returns an error only
\* when the engine reported one.
C16_EngineErrorPropagated ==
    /\ EngineFailed =>
        /\ regionName = PermuteRegion
        /\ result = Err(fault.error)
        /\ fault.error \in EngineErrors
        /\ pc = "done"
        /\ Len(log) = fault.at - 1
        /\ ~ENABLED Next
    /\ result.kind = "Err" => EngineFailed

\* A partial round's partial_sbox assignment failed for want of rows, after
\* earlier rounds had succeeded.
C16_Witness ==
    /\ EngineFailed
    /\ fault.error = "NotEnoughRowsAvailable"
    /\ trace[Len(trace)].step = "partial_round"
    /\ Len(trace) >= 4
    /\ log[Len(log)] = AssignFixedOp(RcCol(WIDTH - 1), trace[Len(trace)].offset,
                                      Known(round_constants(trace[Len(trace)].round, WIDTH - 1)))
    /\ result = Err("NotEnoughRowsAvailable")

\* --------------------------------------------------------------------- C14
\* The whole of permute's closure from the position at = <<pc, index>> on,
\* every engine operation succeeding: the operations issued and the State
\* returned.
RECURSIVE PermuteFrom(_, _, _)
PermuteFrom(st, at, w) ==
    IF at[1] = "first_layer"
    THEN LET rest == PermuteFrom(NextState(FirstLayerValues(st, w), 0, w),
                                 EnterFirstFullRounds(0), w)
         IN  [rest EXCEPT !.ops = FirstLayerOps(st, w) \o @]
    ELSE IF at[1] = "full_rounds_1"
    THEN LET round == FirstFullRoundIndex(at[2])
             rest == PermuteFrom(NextState(FullRoundValues(st, round, w), round + 1, w),
                                 EnterFirstFullRounds(at[2] + 1), w)
         IN  [rest EXCEPT !.ops = FullRoundOps(st, round, round + 1, w) \o @]
    ELSE IF at[1] = "partial_rounds"
    THEN LET round == PartialRoundIndex(at[2])
             rest == PermuteFrom(NextState(PartialRoundValues(st, round, w), round + 1, w),
                                 EnterPartialRounds(at[2] + 1), w)
         IN  [rest EXCEPT !.ops = PartialRoundOps(st, round, round + 1, w) \o @]
    ELSE IF at[1] = "full_rounds_2"
    THEN LET round == SecondFullRoundIndex(at[2])
             rest == PermuteFrom(NextState(FullRoundValues(st, round, w), round + 1, w),
                                 EnterSecondFullRounds(at[2] + 1), w)
         IN  [rest EXCEPT !.ops = FullRoundOps(st, round, round + 1, w) \o @]
    ELSE [ops |-> <<>>, result |-> Ok(st)]

PermuteOutcome(initial_state, w) ==
    LET rest == PermuteFrom(LoadedState(PermuteRegion, initial_state, w),
                            <<"first_layer", 0>>, w)
    IN  [rest EXCEPT !.ops = LoadStateOps(initial_state, w) \o @]

KnownValues == {Known(x) : x \in 0 .. MaxInput}

\* The same words or slots with every unknown value replaced by a known one.
Completions(words) ==
    {[i \in DOMAIN words |-> [words[i] EXCEPT !.value = vals[i]]] :
        vals \in {v \in [DOMAIN words -> KnownValues \cup {UnknownV}] :
                    \A i \in DOMAIN words :
                        /\ words[i].value.known => v[i] = words[i].value
                        /\ (~words[i].value.known /\ words[i].cell # NoCell) => v[i].known
                        /\ words[i].cell = NoCell => v[i] = words[i].value}}

AdviceOps == {"assign_advice", "copy_advice"}

\* A log with its advice values erased: the cell layout, selector
\* activations, fixed-column values and equality constraints.
Shape(lg) ==
    [k \in DOMAIN lg |->
        IF lg[k].op \in AdviceOps THEN [lg[k] EXCEPT !.val = UnknownV] ELSE lg[k]]

\* Whether every input the value of operation k depends on is known.
DependsKnown(k) ==
    LET i == log[k].col[2]
        row == log[k].row
    IN  IF log[k].op \notin AdviceOps THEN TRUE
        ELSE IF row = 0 THEN args.initial_state[i].value.known
        ELSE IF regionName = PermuteRegion THEN InputsKnown
        ELSE IF row = 1 THEN args.input[i].value.known
        ELSE /\ args.initial_state[i].value.known
             /\ i < RATE => args.input[i].value.known

\* The run differs from a reference run on known values in advice values
\* only, unknown wherever they depend on an unknown input.
SameButUnknowns(lg, ref) ==
    /\ IsPrefix(Shape(lg), Shape(ref))
    /\ \A k \in DOMAIN lg :
          lg[k].val = IF DependsKnown(k) THEN ref[k].val ELSE UnknownV

SameResult(res, ref) ==
    /\ res.kind = ref.kind
    /\ DOMAIN res.state = DOMAIN ref.state
    /\ \A i \in DOMAIN res.state :
          /\ res.state[i].cell = ref.state[i].cell
          /\ res.state[i].value \in {ref.state[i].value, UnknownV}

\* C14: unknown input values make neither permute nor add_input fail (permute
\* returns an error only when the engine reported one, add_input panics only
\* on an absent slot), and the region a call produces has the same cell
\* layout, selector activations, fixed values and equality constraints as
\* the same call on known values; the advice values are those of the known
\* run wherever every input they depend on is known and unknown elsewhere.
C14_UnknownInputs ==
    /\ (regionName = PermuteRegion /\ ~EngineFailed) =>
        /\ result.kind \in {"none", "Ok"}
        /\ \A known \in Completions(args.initial_state) :
              LET ref == PermuteOutcome(known, WIDTH) IN
              /\ SameButUnknowns(log, ref.ops)
              /\ pc = "done" => /\ Len(log) = Len(ref.ops)
                                /\ SameResult(result, ref.result)
    /\ regionName = AddInputRegion =>
        /\ result.kind = (IF AbsentSlots = {} THEN "Ok" ELSE "Panic")
        /\ \A known \in Completions(args.initial_state), input \in Completions(args.input) :
              LET ref == AddInputOutcome(known, input, WIDTH, RATE) IN
              /\ SameButUnknowns(log, ref.ops)
              /\ Len(log) = Len(ref.ops)
              /\ SameResult(result, ref.result)

\* A permutation with partial rounds has returned for a state whose first
\* word is unknown and whose second word is known.
C14_Witness ==
    /\ PermuteReturned
    /\ ~args.initial_state[0].value.known
    /\ args.initial_state[1].value.known
    /\ config.full_partial_rounds > 0
    /\ config.half_full_rounds > 0
    /\ \A i \in Idx : ~result.state[i].value.known

\* --------------------------------------------------------------------- C15
\* The partial rounds that have run to their end: the rows whose successor
\* row they have assigned.
PartialRoundsDone ==
    {n \in DOMAIN trace :
        /\ trace[n].step = "partial_round"
        /\ \A i \in Idx : IsAssigned(log, StateCol(i), trace[n].offset + 1)}

\* The state a round read: the words of a row of the region.
RowState(row) ==
    [i \in Idx |-> Word(CellOf(PermuteRegion, StateCol(i), row), CellVal(log, StateCol(i), row))]

\* A state with word j shifted by d.
Shifted(st, j, d) ==
    [i \in DOMAIN st |->
        IF i = j THEN Word(st[i].cell, Known(FAdd(st[i].value.v, d))) ELSE st[i]]

\* mid and next[i] of a partial round run on cur with the round constants rc.
MidWith(rc, cur, w) == PartialRoundRWith(rc, cur, w).v[0]

NextWith(rc, cur, i, w) == MixInternal(PartialRoundRWith(rc, cur, w).v, i, w)

\* A log with the value loaded into rc column j of a row replaced by x.
LogWithRc(lg, row, j, x) ==
    [k \in DOMAIN lg |->
        IF lg[k].op = "assign_fixed" /\ lg[k].col = RcCol(j) /\ lg[k].row = row
        THEN [lg[k] EXCEPT !.val = Known(x)] ELSE lg[k]]

\* C15: a partial round writes all WIDTH round constants of its round to the
\* rc columns of its row, yet only rc[round][0] influences it (examined in
\* the state each round leaves behind, on known inputs): with any other
\* values for rc[round][j], j >= 1, it computes the same mid and the same
\* next[i], and the "partial rounds" gate stays satisfied when such a cell
\* is changed.  Only word 0 passes through the S-box: shifting cur[j], j >= 1,
\* by d leaves mid alone and shifts next[i] by mat_internal[i][j] * d, and
\* shifting cur[0] shifts next[i] by mat_internal[i][0] times the change of
\* mid = (cur[0] + rc[round][0])^5.
C15_OnlyFirstConstant ==
    regionName = PermuteRegion =>
        \A n \in PartialRoundsDone :
            LET row == trace[n].offset
                rc == RoundConstantsRow(trace[n].round, WIDTH)
                cur == RowState(row)
            IN  /\ \A j \in Idx :
                      /\ Cardinality(AssignIdx(log, RcCol(j), row)) = 1
                      /\ CellVal(log, RcCol(j), row) = Known(rc[j])
                /\ (InputsKnown /\ n = Len(trace)) =>
                    LET mid == Q(log, PartialSboxCol, row)
                        next == [i \in Idx |-> Q(log, StateCol(i), row + 1)]
                    IN  /\ mid = FPow(FAdd(cur[0].value.v, rc[0]), alpha)
                        /\ \A other \in [Idx -> F] :
                              other[0] = rc[0] =>
                                  /\ MidWith(other, cur, WIDTH) = mid
                                  /\ \A i \in Idx : NextWith(other, cur, i, WIDTH) = next[i]
                        /\ \A j \in Idx \ {0}, x \in F :
                              PartialRoundSatisfied(LogWithRc(log, row, j, x), row, WIDTH)
                        /\ \A j \in Idx, d \in F, i \in Idx :
                              LET moved == Shifted(cur, j, d) IN
                              /\ j # 0 => MidWith(rc, moved, WIDTH) = mid
                              /\ NextWith(rc, moved, i, WIDTH) =
                                   FAdd(next[i],
                                        FMul(mat_internal(i, j),
                                             IF j = 0
                                             THEN FSub(MidWith(rc, moved, WIDTH), mid)
                                             ELSE d))

\* The second of two partial rounds has run on known inputs in a width-3
\* permutation.
C15_Witness ==
    /\ PermuteRunning
    /\ InputsKnown
    /\ WIDTH = 3
    /\ Cardinality(PartialRoundsDone) = 2
    /\ \E n \in PartialRoundsDone :
          /\ CellVal(log, RcCol(2), trace[n].offset).v # CellVal(log, RcCol(0), trace[n].offset).v
          /\ Q(log, StateCol(0), trace[n].offset) # 0

\* --------------------------------------------------------------------- C17
\* The widest chip set up below.
MaxSetupWidth == 24

\* Setup alone, over every width up to MaxSetupWidth and every rate below it:
\* a chip type Pow5Chip<F, WIDTH, RATE> is chosen and configure is called.
InitSetup ==
    /\ params \in [WIDTH : 1 .. MaxSetupWidth, RATE : 0 .. (MaxSetupWidth - 1),
                   full_rounds : 0 .. MaxFullRounds,
                   partial_rounds : 0 .. MaxPartialRounds]
    /\ meta = [equality |-> {}, selectors |-> <<>>, gates |-> <<>>]
    /\ config = NoConfig
    /\ pc = "unconfigured"
    /\ regionName = "none"
    /\ log = <<>>
    /\ args = NoArgs
    /\ state = NoState
    /\ r = 0
    /\ trace = <<>>
    /\ result = NoResult
    /\ fault = NoFault

SpecSetup == InitSetup /\ [][Configure]_vars

ConfigureAccepted == pc = "idle" /\ config.configured

\* The claim as first stated: configure accepts a width only if it is one of
\* WIDTH_CHOICES.
C17_WidthInChoices ==
    ConfigureAccepted => WIDTH \in WIDTH_CHOICES

\* C17: configure does not consult WIDTH_CHOICES.  It accepts exactly the
\* chips with RATE = WIDTH - 1 and even full and partial round counts,
\* whether the width is one of WIDTH_CHOICES or not, registering WIDTH state
\* columns for equality; a width is rejected only through the rate check.
C17_WidthNotChecked ==
    pc # "unconfigured" =>
        /\ ConfigureAccepted <=>
              /\ RATE = WIDTH - 1
              /\ params.full_rounds % 2 = 0
              /\ params.partial_rounds % 2 = 0
        /\ ~ConfigureAccepted =>
              /\ pc = "panicked"
              /\ result.kind = "Panic"
              /\ result.error \in {"assert_eq!(RATE, WIDTH - 1)",
                                   "assert!(S::full_rounds() & 1 == 0)",
                                   "assert!(S::partial_rounds() & 1 == 0)"}
        /\ ConfigureAccepted =>
              {i \in 0 .. (MaxSetupWidth + 1) : StateCol(i) \in meta.equality} = Idx

\* configure has accepted width 5 with rate 4.
C17_Witness ==
    /\ ConfigureAccepted
    /\ WIDTH = 5
    /\ RATE = 4
    /\ WIDTH \notin WIDTH_CHOICES

\* --------------------------------------------------------------------- C18
\* The cells the gates query in a region: those of every gate on every row
\* where its selector is enabled.
GateCells(sel, row, w, rate) ==
    IF sel = "s_first" THEN FirstLayerCells(row, w)
    ELSE IF sel = "s_full" THEN FullRoundCells(row, w)
    ELSE IF sel = "s_partial" THEN PartialRoundCells(row, w)
    ELSE PadAndAddCells(row, w, rate)

AllSelectors == RoundSelectors \cup {"s_pad_and_add"}

QueriedCells(lg, w, rate) ==
    UNION {GateCells(on[1], on[2], w, rate) :
              on \in {q \in AllSelectors \X Rows(lg) : SelectorOn(lg, q[1], q[2])}}

\* C18: in the region of a permute or add_input that returned Ok, every cell
\* queried by a gate whose selector is enabled is assigned exactly once in
\* that region; all WIDTH round constants of a round row are assigned once;
\* no selector is enabled on the last row of a permute region; the cell
\* state[RATE] of row 1 of an add_input region is neither assigned nor
\* queried.
C18_QueriedCellsAssignedOnce ==
    /\ (PermuteReturned \/ AddInputReturned) =>
        /\ QueriedCells(log, WIDTH, RATE) # {}
        /\ \A c \in QueriedCells(log, WIDTH, RATE) :
              /\ c[2] \in Rows(log)
              /\ Cardinality(AssignIdx(log, c[1], c[2])) = 1
    /\ PermuteReturned =>
        /\ \A sel \in AllSelectors : ~SelectorOn(log, sel, total_rounds + 1)
        /\ \A row \in 1 .. total_rounds :
              \A c \in RcCells(row, WIDTH) : Cardinality(AssignIdx(log, c[1], c[2])) = 1
        /\ \A row \in RowsWith(log, "s_partial") :
              Cardinality(AssignIdx(log, PartialSboxCol, row)) = 1
    /\ AddInputReturned =>
        /\ ~IsAssigned(log, StateCol(RATE), 1)
        /\ <<StateCol(RATE), 1>> \notin QueriedCells(log, WIDTH, RATE)
        /\ QueriedCells(log, WIDTH, RATE) = PadAndAddCells(1, WIDTH, RATE)

\* A width-3 permutation with full and partial rounds has returned.
C18_Witness ==
    /\ PermuteReturned
    /\ WIDTH = 3
    /\ RowsWith(log, "s_partial") # {}
    /\ RowsWith(log, "s_full") # {}
    /\ <<PartialSboxCol, config.half_full_rounds + 1>> \in QueriedCells(log, WIDTH, RATE)

=============================================================================
